---- MODULE Spec2Model ----
(***************************************************************************)
(* barkhaus-sync: two serverless handlers in front of a Shopify store.     *)
(*   api/cognito-shopify.ts    record ingestion: normalize a Cognito form  *)
(*                             payload, upload its images, upsert one      *)
(*                             "animal" metaobject by handle               *)
(*   api/shopify/setup-animal.ts  schema reconciler: look the "animal"     *)
(*                             definition up, create it or add the missing *)
(*                             fields                                      *)
(* Strings are sequences of one-character strings, so that trimming, case  *)
(* folding, prefix tests and splitting are computed, not assumed.          *)
(***************************************************************************)
EXTENDS Integers, Sequences, FiniteSets, TLC

VARIABLES
    pc,           \* ingestion invocation -> where it stands in handler
    request,      \* ingestion invocation -> the request it was sent
    loc,          \* ingestion invocation -> the handler's local constants
    fileIds,      \* ingestion invocation -> ids pushed by the gallery loop
    gi,           \* ingestion invocation -> gallery entries already visited
    lastUpload,   \* ingestion invocation -> how its latest upload ended
    log,          \* ingestion invocation -> store requests it has issued
    resp,         \* ingestion invocation -> the HTTP response it has sent
    metaobjects,  \* the store: its "animal" metaobjects
    files,        \* the store: the files created by fileCreate
    rpc,          \* reconciler invocation -> where it stands in handler
    existing,     \* reconciler invocation -> the definition its lookup saw
    rlog,         \* reconciler invocation -> store requests it has issued
    rresp,        \* reconciler invocation -> the HTTP response it has sent
    rafter,       \* reconciler invocation -> its lookup came after an accepted call had ended
    definition    \* the store: the "animal" metaobject definition

ivars == <<pc, request, loc, fileIds, gi, lastUpload, log, resp, metaobjects, files>>
rvars == <<rpc, existing, rlog, rresp, rafter, definition>>
vars == <<pc, request, loc, fileIds, gi, lastUpload, log, resp, metaobjects, files,
          rpc, existing, rlog, rresp, rafter, definition>>

(***************************************************************************)
(* Bounds of the model.                                                    *)
(***************************************************************************)
NumIngest == 2
NumSetup == 2
MaxGallery == 13
MaxShortGallery == 2
MaxMissing == 2

(***************************************************************************)
(* JavaScript values and strings.                                          *)
(***************************************************************************)
Undefined == [t |-> "undefined"]
Null == [t |-> "null"]
Str(s) == [t |-> "string", s |-> s]
Num(n) == [t |-> "number", n |-> n]
Bool(b) == [t |-> "boolean", b |-> b]
Arr(a) == [t |-> "array", a |-> a]

WhiteSpace == {" ", "\t", "\n"}
UpperCase == <<"A", "B", "D", "E", "I", "L", "M", "O", "P", "T", "V">>
LowerCase == <<"a", "b", "d", "e", "i", "l", "m", "o", "p", "t", "v">>
Digits == <<"0", "1", "2", "3", "4", "5", "6", "7", "8", "9">>

RECURSIVE trimStart(_)
trimStart(s) ==
    IF s # <<>> /\ Head(s) \in WhiteSpace THEN trimStart(Tail(s)) ELSE s

RECURSIVE trimEnd(_)
trimEnd(s) ==
    IF s # <<>> /\ s[Len(s)] \in WhiteSpace
    THEN trimEnd(SubSeq(s, 1, Len(s) - 1))
    ELSE s

trim(s) == trimEnd(trimStart(s))

lowerChar(c) ==
    IF \E i \in 1..Len(UpperCase) : UpperCase[i] = c
    THEN LowerCase[CHOOSE i \in 1..Len(UpperCase) : UpperCase[i] = c]
    ELSE c

toLowerCase(s) == [i \in 1..Len(s) |-> lowerChar(s[i])]

RECURSIVE numberToString(_)
numberToString(n) ==
    IF n < 10
    THEN <<Digits[n + 1]>>
    ELSE numberToString(n \div 10) \o <<Digits[(n % 10) + 1]>>

RECURSIVE join(_, _)
join(parts, sep) ==
    IF parts = <<>> THEN <<>>
    ELSE IF Len(parts) = 1 THEN parts[1]
    ELSE parts[1] \o sep \o join(Tail(parts), sep)

\* String(v): the text JavaScript gives a value
RECURSIVE String(_)
String(v) ==
    CASE v.t = "string" -> v.s
      [] v.t = "number" -> numberToString(v.n)
      [] v.t = "boolean" ->
            IF v.b THEN <<"t", "r", "u", "e">> ELSE <<"f", "a", "l", "s", "e">>
      [] v.t = "array" ->
            join([i \in 1..Len(v.a) |->
                    IF v.a[i].t \in {"undefined", "null"} THEN <<>> ELSE String(v.a[i])],
                 <<",">>)
      [] v.t = "null" -> <<"n", "u", "l", "l">>
      [] OTHER -> <<"u", "n", "d", "e", "f", "i", "n", "e", "d">>

\* !!v
truthy(v) ==
    CASE v.t = "string" -> v.s # <<>>
      [] v.t = "number" -> v.n # 0
      [] v.t = "boolean" -> v.b
      [] v.t = "array" -> TRUE
      [] OTHER -> FALSE

startsWith(s, prefix) ==
    Len(s) >= Len(prefix) /\ SubSeq(s, 1, Len(prefix)) = prefix

includes(s, c) == \E i \in 1..Len(s) : s[i] = c

\* s.split(c)
RECURSIVE split(_, _)
split(s, c) ==
    IF ~includes(s, c) THEN <<s>>
    ELSE LET i == CHOOSE k \in 1..Len(s) :
                     s[k] = c /\ \A j \in 1..(k - 1) : s[j] # c
         IN  <<SubSeq(s, 1, i - 1)>> \o split(SubSeq(s, i + 1, Len(s)), c)

\* /^https?:\/\//.test(u)
isHttpUrl(u) ==
    \/ startsWith(u, <<"h", "t", "t", "p", ":", "/", "/">>)
    \/ startsWith(u, <<"h", "t", "t", "p", "s", ":", "/", "/">>)

\* description.replace(/\n+/g, "</p><p>")
RECURSIVE replaceNewlines(_)
replaceNewlines(s) ==
    IF s = <<>> THEN <<>>
    ELSE IF Head(s) = "\n"
    THEN LET rest == Tail(s)
         IN  IF rest # <<>> /\ Head(rest) = "\n"
             THEN replaceNewlines(rest)
             ELSE <<"<", "/", "p", ">", "<", "p", ">">> \o replaceNewlines(rest)
    ELSE <<Head(s)>> \o replaceNewlines(Tail(s))

richText(s) == <<"<", "p", ">">> \o replaceNewlines(s) \o <<"<", "/", "p", ">">>

(***************************************************************************)
(* api/cognito-shopify.ts: the alias table and the normalization.          *)
(***************************************************************************)
MAP ==
    [externalId     |-> <<"Entry ID", "entryId", "Number", "id">>,
     name           |-> <<"Name", "Dog Name", "name", "dog_name">>,
     status         |-> <<"Status", "status">>,
     species        |-> <<"Species", "species">>,
     breed          |-> <<"Breed", "breed">>,
     age            |-> <<"Age", "age">>,
     gender         |-> <<"Gender", "gender">>,
     size           |-> <<"Size", "size">>,
     location       |-> <<"Location", "location", "City">>,
     adoptionFee    |-> <<"Adoption Fee", "adoption_fee", "AdoptionFee">>,
     description    |-> <<"Description", "description">>,
     imageUrl       |-> <<"Image Url", "ImageUrl", "image_url", "PhotoUrl">>,
     gallery        |-> <<"Gallery Urls", "Gallery", "image_urls">>,
     goodWithKids   |-> <<"Good With Kids", "good_with_kids">>,
     goodWithDogs   |-> <<"Good With Dogs", "good_with_dogs">>,
     goodWithCats   |-> <<"Good With Cats", "good_with_cats">>,
     houseTrained   |-> <<"House Trained", "house_trained">>,
     spayedNeutered |-> <<"Spayed/Neutered", "spayed_neutered">>,
     vaccinated     |-> <<"Vaccinated", "vaccinated">>]

\* payload?.[k]
get(payload, k) == IF k \in DOMAIN payload THEN payload[k] ELSE Undefined

nullish(v) == v.t \in {"undefined", "null"}

\* first non-empty value from possible keys
RECURSIVE pick(_, _, _)
pick(payload, keys, fallback) ==
    IF keys = <<>> THEN fallback
    ELSE LET v == get(payload, Head(keys))
         IN  IF ~nullish(v) /\ trim(String(v)) # <<>>
             THEN v
             ELSE pick(payload, Tail(keys), fallback)

\* a plausible slip: the identity is given a fallback, as every other field is
externalIdOf_Placeholder(payload) ==
    trim(String(pick(payload, MAP.externalId, Str(<<"0">>))))

\* a plausible slip: the value is not trimmed
externalIdOf_Untrimmed(payload) == String(pick(payload, MAP.externalId, Str(<<>>)))

externalIdOf(payload) == trim(String(pick(payload, MAP.externalId, Str(<<>>))))

Available == <<"a", "v", "a", "i", "l", "a", "b", "l", "e">>

statusRawOf(payload) == toLowerCase(String(pick(payload, MAP.status, Str(Available))))

\* a plausible slip: the comparison is made the wrong way round
publishStatusOf_Inverted(statusRaw) ==
    IF statusRaw = Available THEN "DRAFT" ELSE "ACTIVE"

publishStatusOf(statusRaw) == IF statusRaw = Available THEN "ACTIVE" ELSE "DRAFT"

\* g = payload[gallery[0]] ?? payload[gallery[1]] ?? payload[gallery[2]], then the filters
galleryUrlsOf(payload) ==
    LET g0 == get(payload, MAP.gallery[1])
        g1 == get(payload, MAP.gallery[2])
        g2 == get(payload, MAP.gallery[3])
        g  == IF ~nullish(g0) THEN g0 ELSE IF ~nullish(g1) THEN g1 ELSE g2
    IN  IF g.t = "array"
        THEN LET kept == SelectSeq(g.a, LAMBDA u : u.t = "string" /\ isHttpUrl(u.s))
             IN  [i \in 1..Len(kept) |-> kept[i].s]
        ELSE IF g.t = "string" /\ includes(g.s, ",")
        THEN LET parts == split(g.s, ",")
                 trimmed == [i \in 1..Len(parts) |-> trim(parts[i])]
             IN  SelectSeq(trimmed, isHttpUrl)
        ELSE <<>>

booleanText(b) == IF b THEN <<"t", "r", "u", "e">> ELSE <<"f", "a", "l", "s", "e">>

Field(key, value) == [key |-> key, value |-> value]
TypedField(key, value, type) == [key |-> key, value |-> value, type |-> type]

\* the constants handler computes from the payload before its first store request
normalize(payload) ==
    LET text(keys, fallback) == String(pick(payload, keys, Str(fallback)))
        flag(keys) == truthy(pick(payload, keys, Bool(FALSE)))
        externalId  == externalIdOf(payload)
        name        == trim(text(MAP.name, <<"U", "n", "n", "a", "m", "e", "d">>))
        statusRaw   == statusRawOf(payload)
        description == text(MAP.description, <<>>)
    IN  [externalId    |-> externalId,
         name          |-> name,
         imageUrl      |-> text(MAP.imageUrl, <<>>),
         galleryUrls   |-> galleryUrlsOf(payload),
         publishStatus |-> publishStatusOf(statusRaw),
         fields |-> <<
            Field("external_id", externalId),
            Field("name", name),
            Field("status", statusRaw),
            Field("species", text(MAP.species, <<"D", "o", "g">>)),
            Field("breed", text(MAP.breed, <<>>)),
            Field("age", text(MAP.age, <<>>)),
            Field("gender", text(MAP.gender, <<>>)),
            Field("size", text(MAP.size, <<>>)),
            Field("location", text(MAP.location, <<>>)),
            Field("adoption_fee", text(MAP.adoptionFee, <<>>)),
            TypedField("good_with_kids", booleanText(flag(MAP.goodWithKids)), "boolean"),
            TypedField("good_with_dogs", booleanText(flag(MAP.goodWithDogs)), "boolean"),
            TypedField("good_with_cats", booleanText(flag(MAP.goodWithCats)), "boolean"),
            TypedField("house_trained", booleanText(flag(MAP.houseTrained)), "boolean"),
            TypedField("spayed_neutered", booleanText(flag(MAP.spayedNeutered)), "boolean"),
            TypedField("vaccinated", booleanText(flag(MAP.vaccinated)), "boolean"),
            TypedField("description", richText(description), "rich_text_field")>>]

(***************************************************************************)
(* api/cognito-shopify.ts: the store as the handler's requests see it.     *)
(* A request is answered in one of these ways:                             *)
(*   ok         2xx, data, no userErrors: the store has applied it         *)
(*   userError  2xx, data with a non-empty userErrors, nothing applied     *)
(*   noid       2xx, fileCreate answered without a file id                 *)
(*   errors     2xx, a non-empty top-level errors array, data null         *)
(*   http       a non-2xx response                                         *)
(*   throw      fetch or r.json() rejected                                 *)
(***************************************************************************)
IProcs == 1..NumIngest
GalleryCap == 12
WEBHOOK_SECRET == "s3cret"

UploadOutcomes == {"ok", "noid", "http", "throw"}
MutationOutcomes == {"ok", "userError", "errors", "http", "throw"}

\* gql: throws when fetch or r.json() rejects, or when !r.ok
gqlThrows(out) == out \in {"http", "throw"}

fileGid(n) == <<"f">> \o numberToString(n)

\* JSON.stringify(fileIds)
stringifyIds(ids) ==
    <<"[">> \o join([i \in 1..Len(ids) |-> <<"\"">> \o fileGid(ids[i]) \o <<"\"">>], <<",">>)
            \o <<"]">>

\* uploadExternalImage: the id of the file created, 0 for null, or an exception
uploadExternalImage(out, newId) ==
    IF gqlThrows(out) THEN [throws |-> TRUE, id |-> 0]
    ELSE IF out = "ok" THEN [throws |-> FALSE, id |-> newId]
    ELSE [throws |-> FALSE, id |-> 0]

\* a plausible slip: the upload's rejection is not caught
catchNull_Missing(r) == r

\* .catch(() => null)
catchNull(r) == IF r.throws THEN [throws |-> FALSE, id |-> 0] ELSE r

\* the store's fileCreate
fileCreate(fs, out, url) ==
    IF out = "ok" THEN Append(fs, [id |-> Len(fs) + 1, originalSource |-> url]) ELSE fs

\* a plausible slip: the whole gallery is uploaded
gallerySlice_NoCap(urls) == urls

\* galleryUrls.slice(0, 12)
gallerySlice(urls) ==
    SubSeq(urls, 1, IF Len(urls) < GalleryCap THEN Len(urls) ELSE GalleryCap)

\* a plausible slip: the display name is passed where the handle is expected
upsertVariables_NameHandle(l) ==
    [handle |-> l.name, name |-> l.name, fields |-> l.fields, status |-> l.publishStatus]

\* the variables of the UPSERT mutation
upsertVariables(l) ==
    [handle |-> l.externalId, name |-> l.name, fields |-> l.fields, status |-> l.publishStatus]

fieldValues(fields) ==
    [k \in {fields[i].key : i \in 1..Len(fields)} |->
        fields[CHOOSE i \in 1..Len(fields) :
                  fields[i].key = k /\ \A j \in (i + 1)..Len(fields) : fields[j].key # k].value]

\* the store's metaobjectUpsert(handle: {type: "animal", handle}, metaobject)
metaobjectUpsert(ms, v) ==
    IF \E m \in ms : m.handle = v.handle
    THEN LET m == CHOOSE x \in ms : x.handle = v.handle
         IN  (ms \ {m}) \cup
             {[m EXCEPT !.displayName = v.name,
                        !.fields = fieldValues(v.fields) @@ m.fields,
                        !.status = v.status]}
    ELSE ms \cup {[id |-> Cardinality(ms) + 1, handle |-> v.handle, type |-> "animal",
                   displayName |-> v.name, fields |-> fieldValues(v.fields),
                   status |-> v.status]}

metaobjectId(ms, handle) == (CHOOSE m \in ms : m.handle = handle).id

UserError == [field |-> "fields", message |-> "rejected"]

\* what handler answers once the upsert request has ended
upsertReply(out, l, id) ==
    IF gqlThrows(out) THEN [status |-> 500, error |-> "Shopify GraphQL error"]
    ELSE IF out = "userError" THEN [status |-> 400, err |-> UserError]
    ELSE [status |-> 200, ok |-> TRUE, id |-> IF out = "ok" THEN id ELSE 0,
          handle |-> l.externalId, publishStatus |-> l.publishStatus]

\* a plausible slip: a failed upsert is sent again
afterUpsert_Retry(out) == IF gqlThrows(out) THEN "upsert" ELSE "done"

\* every outcome of the upsert ends the call
afterUpsert(out) == "done"

\* a plausible slip: the image is forgotten
afterNormalize_SkipImage(l) == IF Len(l.galleryUrls) > 0 THEN "gallery" ELSE "upsert"

\* a plausible slip: a key that the catalog does not hold
imageField_Photo(id) == [key |-> "photo", value |-> <<"f">> \o numberToString(id),
                         type |-> "file_reference"]

\* fields.push({ key: "image", value: uploaded.id, type: "file_reference" })
imageField(id) == [key |-> "image", value |-> fileGid(id), type |-> "file_reference"]

NoRequest == [method |-> "", sig |-> "", body |-> <<>>]
NoLocals == [externalId |-> <<>>]
NoResponse == [status |-> 0]

afterImage(l) == IF Len(l.galleryUrls) > 0 THEN "gallery" ELSE "upsert"

afterNormalize(l) ==
    IF l.imageUrl # <<>> /\ isHttpUrl(l.imageUrl) THEN "image" ELSE afterImage(l)

(***************************************************************************)
(* api/cognito-shopify.ts: handler, one action for each stretch of code    *)
(* between two awaits.                                                     *)
(***************************************************************************)
\* the request arrives: method, shared secret, normalization, the field list
Receive(p, req) ==
    /\ pc[p] = "idle"
    /\ request' = [request EXCEPT ![p] = req]
    /\ UNCHANGED <<fileIds, gi, lastUpload, log, metaobjects, files, rvars>>
    /\ IF req.method # "POST"
       THEN /\ resp' = [resp EXCEPT ![p] = [status |-> 405]]
            /\ pc' = [pc EXCEPT ![p] = "done"]
            /\ UNCHANGED loc
       ELSE IF req.sig = "" \/ req.sig # WEBHOOK_SECRET
       THEN /\ resp' = [resp EXCEPT ![p] = [status |-> 401]]
            /\ pc' = [pc EXCEPT ![p] = "done"]
            /\ UNCHANGED loc
       ELSE IF externalIdOf(req.body) = <<>>
       THEN /\ resp' = [resp EXCEPT ![p] =
                          [status |-> 400, text |-> "Missing external id (e.g., Entry ID)"]]
            /\ pc' = [pc EXCEPT ![p] = "done"]
            /\ UNCHANGED loc
       ELSE LET l == normalize(req.body)
            IN  /\ loc' = [loc EXCEPT ![p] = l]
                /\ pc' = [pc EXCEPT ![p] = afterNormalize(l)]
                /\ UNCHANGED resp

\* the primary image is uploaded
UploadImage(p) ==
    /\ pc[p] = "image"
    /\ \E out \in UploadOutcomes :
         LET url == loc[p].imageUrl
             uploaded == catchNull(uploadExternalImage(out, Len(files) + 1))
         IN  /\ files' = fileCreate(files, out, url)
             /\ log' = [log EXCEPT ![p] =
                          Append(@, [op |-> "fileCreate", url |-> url, id |-> uploaded.id])]
             /\ lastUpload' = [lastUpload EXCEPT ![p] = out]
             /\ IF uploaded.throws
                THEN /\ resp' = [resp EXCEPT ![p] =
                                   [status |-> 500, error |-> "Shopify GraphQL error"]]
                     /\ pc' = [pc EXCEPT ![p] = "done"]
                     /\ UNCHANGED loc
                ELSE /\ loc' = [loc EXCEPT ![p].fields =
                                  IF uploaded.id # 0
                                  THEN Append(@, imageField(uploaded.id))
                                  ELSE @]
                     /\ pc' = [pc EXCEPT ![p] = afterImage(loc[p])]
                     /\ UNCHANGED resp
    /\ UNCHANGED <<request, fileIds, gi, metaobjects, rvars>>

\* one turn of the gallery loop, and what follows the loop after its last turn
UploadGallery(p) ==
    /\ pc[p] = "gallery"
    /\ \E out \in UploadOutcomes :
         LET slice == gallerySlice(loc[p].galleryUrls)
             url == slice[gi[p] + 1]
             uploaded == catchNull(uploadExternalImage(out, Len(files) + 1))
             ids == IF uploaded.id # 0 THEN Append(fileIds[p], uploaded.id) ELSE fileIds[p]
             last == gi[p] + 1 = Len(slice)
         IN  /\ files' = fileCreate(files, out, url)
             /\ log' = [log EXCEPT ![p] =
                          Append(@, [op |-> "fileCreate", url |-> url, id |-> uploaded.id])]
             /\ lastUpload' = [lastUpload EXCEPT ![p] = out]
             /\ IF uploaded.throws
                THEN /\ resp' = [resp EXCEPT ![p] =
                                   [status |-> 500, error |-> "Shopify GraphQL error"]]
                     /\ pc' = [pc EXCEPT ![p] = "done"]
                     /\ UNCHANGED <<loc, fileIds, gi>>
                ELSE /\ fileIds' = [fileIds EXCEPT ![p] = ids]
                     /\ gi' = [gi EXCEPT ![p] = @ + 1]
                     /\ loc' = [loc EXCEPT ![p].fields =
                                  IF last /\ ids # <<>>
                                  THEN Append(@, TypedField("gallery", stringifyIds(ids),
                                                            "list.file_reference"))
                                  ELSE @]
                     /\ pc' = [pc EXCEPT ![p] = IF last THEN "upsert" ELSE "gallery"]
                     /\ UNCHANGED resp
    /\ UNCHANGED <<request, metaobjects, rvars>>

\* the upsert by handle, and the answer
Upsert(p) ==
    /\ pc[p] = "upsert"
    /\ \E out \in MutationOutcomes :
         LET v == upsertVariables(loc[p])
             ms == IF out = "ok" THEN metaobjectUpsert(metaobjects, v) ELSE metaobjects
             id == IF out = "ok" THEN metaobjectId(ms, v.handle) ELSE 0
         IN  /\ metaobjects' = ms
             /\ log' = [log EXCEPT ![p] =
                          Append(@, [op |-> "metaobjectUpsert", handle |-> v.handle,
                                     name |-> v.name, fields |-> v.fields,
                                     status |-> v.status, out |-> out])]
             /\ resp' = [resp EXCEPT ![p] = upsertReply(out, loc[p], id)]
             /\ pc' = [pc EXCEPT ![p] = afterUpsert(out)]
    /\ UNCHANGED <<request, loc, fileIds, gi, lastUpload, files, rvars>>

(***************************************************************************)
(* api/shopify/setup-animal.ts: the field catalog, the store's definition  *)
(* of the type "animal", and handler.                                      *)
(***************************************************************************)
RProcs == 1..NumSetup
SETUP_SECRET == "setup"

FieldDef(name, key, type) ==
    [name |-> name, key |-> key, type |-> type, required |-> Undefined, validations |-> <<>>]

\* Canonical field set
FIELDS == <<
    [FieldDef("Name", "name", "single_line_text_field") EXCEPT !.required = Bool(TRUE)],
    FieldDef("Status", "status", "single_line_text_field"),
    FieldDef("Species", "species", "single_line_text_field"),
    FieldDef("Breed", "breed", "single_line_text_field"),
    FieldDef("Age", "age", "single_line_text_field"),
    FieldDef("Gender", "gender", "single_line_text_field"),
    FieldDef("Size", "size", "single_line_text_field"),
    FieldDef("Location", "location", "single_line_text_field"),
    FieldDef("Adoption Fee", "adoption_fee", "single_line_text_field"),
    FieldDef("Good With Kids", "good_with_kids", "boolean"),
    FieldDef("Good With Dogs", "good_with_dogs", "boolean"),
    FieldDef("Good With Cats", "good_with_cats", "boolean"),
    FieldDef("House Trained", "house_trained", "boolean"),
    FieldDef("Spayed/Neutered", "spayed_neutered", "boolean"),
    FieldDef("Vaccinated", "vaccinated", "boolean"),
    FieldDef("Description", "description", "rich_text_field"),
    FieldDef("Image", "image", "file_reference"),
    FieldDef("Gallery", "gallery", "list.file_reference"),
    [FieldDef("External ID", "external_id", "single_line_text_field")
        EXCEPT !.validations = <<"UNIQUE">>]>>

keysOf(defs) == {defs[i].key : i \in 1..Len(defs)}
CatalogKeys == keysOf(FIELDS)

\* the store's definition: absent, or its id and its fields as key -> type
NoDefinition == [exists |-> FALSE, id |-> 0, fields |-> <<>>]

typesOf(defs) == [k \in keysOf(defs) |-> defs[CHOOSE i \in 1..Len(defs) : defs[i].key = k].type]

LookupOutcomes == {"ok", "errors", "http", "throw"}

\* a plausible slip: the definition the lookup returned is not read
existingOf_Lost(out, def) == [found |-> FALSE, id |-> 0, keys |-> {}]

\* defResp?.data?.metaobjectDefinitionByType: what handler reads from the lookup's answer
existingOf(out, def) ==
    IF out = "ok" /\ def.exists
    THEN [found |-> TRUE, id |-> def.id, keys |-> DOMAIN def.fields]
    ELSE [found |-> FALSE, id |-> 0, keys |-> {}]

\* a plausible slip: the catalog is compared by display name, not by key
toCreateOf_ByName(ex) ==
    LET missing == SelectSeq(FIELDS, LAMBDA f : f.name \notin ex.keys)
    IN  [i \in 1..Len(missing) |->
            [missing[i] EXCEPT !.required = Bool(truthy(missing[i].required))]]

\* a plausible slip: the filter keeps the fields that exist
toCreateOf_Kept(ex) ==
    LET missing == SelectSeq(FIELDS, LAMBDA f : f.key \in ex.keys)
    IN  [i \in 1..Len(missing) |->
            [missing[i] EXCEPT !.required = Bool(truthy(missing[i].required))]]

\* FIELDS.filter((f) => !existingKeys.has(f.key)).map(...)
toCreateOf(ex) ==
    LET missing == SelectSeq(FIELDS, LAMBDA f : f.key \notin ex.keys)
    IN  [i \in 1..Len(missing) |->
            [missing[i] EXCEPT !.required = Bool(truthy(missing[i].required))]]

\* the store's metaobjectDefinitionCreate: the type must not exist yet
canCreate(def) == ~def.exists
definitionCreate(def, defs) == [exists |-> TRUE, id |-> 1, fields |-> typesOf(defs)]

\* the store's metaobjectDefinitionUpdate: additive, and no key may exist already
canUpdate(def, id, toCreate, toUpdate) ==
    def.exists /\ def.id = id /\ keysOf(toCreate) \cap DOMAIN def.fields = {}
definitionUpdate(def, toCreate, toUpdate) ==
    [def EXCEPT !.fields = typesOf(toCreate) @@ typesOf(toUpdate) @@ @]

\* what handler answers once its create or update request has ended
mutationReply(step, out, toCreate) ==
    IF gqlThrows(out) THEN [status |-> 500, error |-> "Shopify GraphQL error"]
    ELSE IF out = "userError"
    THEN [status |-> 400, step |-> step, errors |-> <<UserError>>]
    ELSE IF step = "create"
    THEN [status |-> 200, ok |-> TRUE, created |-> out = "ok"]
    ELSE [status |-> 200, ok |-> TRUE,
          createdFields |-> [i \in 1..Len(toCreate) |-> toCreate[i].key]]

UpToDate == [status |-> 200, ok |-> TRUE, message |-> "animal definition already up-to-date"]

\* a call has ended and the store had accepted its create or update request
accepted(q) ==
    /\ rpc[q] = "done"
    /\ rlog[q] # <<>>
    /\ rlog[q][Len(rlog[q])].op \in {"create", "update"}
    /\ rlog[q][Len(rlog[q])].out = "ok"

\* the request arrives: method, bearer secret, the lookup and what is decided on it
Lookup(q, req) ==
    /\ rpc[q] = "idle"
    /\ UNCHANGED <<ivars, definition>>
    /\ IF req.method # "POST"
       THEN /\ rresp' = [rresp EXCEPT ![q] = [status |-> 405]]
            /\ rpc' = [rpc EXCEPT ![q] = "done"]
            /\ UNCHANGED <<existing, rlog, rafter>>
       ELSE IF req.authorization # SETUP_SECRET
       THEN /\ rresp' = [rresp EXCEPT ![q] = [status |-> 401]]
            /\ rpc' = [rpc EXCEPT ![q] = "done"]
            /\ UNCHANGED <<existing, rlog, rafter>>
       ELSE \E out \in LookupOutcomes :
              LET ex == existingOf(out, definition)
              IN  /\ rlog' = [rlog EXCEPT ![q] =
                                Append(@, [op |-> "lookup", type |-> "animal", out |-> out,
                                           found |-> out = "ok" /\ definition.exists])]
                  /\ rafter' = [rafter EXCEPT ![q] = \E r \in RProcs : accepted(r)]
                  /\ existing' = [existing EXCEPT ![q] = ex]
                  /\ IF gqlThrows(out)
                     THEN /\ rresp' = [rresp EXCEPT ![q] =
                                         [status |-> 500, error |-> "Shopify GraphQL error"]]
                          /\ rpc' = [rpc EXCEPT ![q] = "done"]
                     ELSE IF ~ex.found
                     THEN /\ rpc' = [rpc EXCEPT ![q] = "create"]
                          /\ UNCHANGED rresp
                     ELSE IF Len(toCreateOf(ex)) = 0
                     THEN /\ rresp' = [rresp EXCEPT ![q] = UpToDate]
                          /\ rpc' = [rpc EXCEPT ![q] = "done"]
                     ELSE /\ rpc' = [rpc EXCEPT ![q] = "update"]
                          /\ UNCHANGED rresp

\* the definition is created with the whole catalog
Create(q) ==
    /\ rpc[q] = "create"
    /\ \E out \in MutationOutcomes :
         /\ out = "ok" => canCreate(definition)
         /\ definition' = IF out = "ok" THEN definitionCreate(definition, FIELDS)
                          ELSE definition
         /\ rlog' = [rlog EXCEPT ![q] =
                       Append(@, [op |-> "create", type |-> "animal",
                                  fieldDefinitions |-> FIELDS, out |-> out])]
         /\ rresp' = [rresp EXCEPT ![q] = mutationReply("create", out, <<>>)]
         /\ rpc' = [rpc EXCEPT ![q] = "done"]
    /\ UNCHANGED <<ivars, existing, rafter>>

\* the missing fields are added
Update(q) ==
    /\ rpc[q] = "update"
    /\ \E out \in MutationOutcomes :
         LET toCreate == toCreateOf(existing[q])
             toUpdate == <<>>
         IN  /\ out = "ok" => canUpdate(definition, existing[q].id, toCreate, toUpdate)
             /\ definition' = IF out = "ok"
                              THEN definitionUpdate(definition, toCreate, toUpdate)
                              ELSE definition
             /\ rlog' = [rlog EXCEPT ![q] =
                           Append(@, [op |-> "update", id |-> existing[q].id,
                                      fieldDefinitionsToCreate |-> toCreate,
                                      fieldDefinitionsToUpdate |-> toUpdate,
                                      out |-> out])]
             /\ rresp' = [rresp EXCEPT ![q] = mutationReply("update", out, toCreate)]
             /\ rpc' = [rpc EXCEPT ![q] = "done"]
    /\ UNCHANGED <<ivars, existing, rafter>>

SetupRequests ==
    {[method |-> "POST", authorization |-> SETUP_SECRET],
     [method |-> "GET", authorization |-> SETUP_SECRET],
     [method |-> "POST", authorization |-> ""]}

\* the catalog fields a store's older definition may lack
MissingCandidates == {FIELDS[i].key : i \in (Len(FIELDS) - MaxMissing + 1)..Len(FIELDS)}

\* an older definition: some catalog fields missing
olderDefinition(M) ==
    [exists |-> TRUE, id |-> 1, fields |-> [k \in CatalogKeys \ M |-> typesOf(FIELDS)[k]]]

\* an older definition with a field of its own and a catalog key of another type
foreignDefinition ==
    [exists |-> TRUE, id |-> 1,
     fields |-> ("legacy_note" :> "multi_line_text_field") @@ ("age" :> "number_integer")
                @@ ("name" :> "single_line_text_field")]

InitialDefinitions ==
    {NoDefinition, foreignDefinition} \cup {olderDefinition(M) : M \in SUBSET MissingCandidates}

InitSetup ==
    /\ rpc = [q \in RProcs |-> "idle"]
    /\ existing = [q \in RProcs |-> existingOf("none", NoDefinition)]
    /\ rlog = [q \in RProcs |-> <<>>]
    /\ rresp = [q \in RProcs |-> NoResponse]
    /\ rafter = [q \in RProcs |-> FALSE]

(***************************************************************************)
(* The requests the webhook is sent.                                       *)
(***************************************************************************)
Http == <<"h", "t", "t", "p", ":", "/", "/">>
Https == <<"h", "t", "t", "p", "s", ":", "/", "/">>
Ftp == <<"f", "t", "p", ":", "/", "/">>
url(n) == Http \o numberToString(n)

Post(body) == [method |-> "POST", sig |-> WEBHOOK_SECRET, body |-> body]

\* a body from an alias -> value function, the undefined values being absent keys
Body(f) == [k \in {a \in DOMAIN f : f[a] # Undefined} |-> f[k]]

Rex == ("Entry ID" :> Str(<<" ", "7">>)) @@ ("Name" :> Str(<<"R", "e", "x">>))
          @@ ("Status" :> Str(<<"A", "v", "a", "i", "l", "a", "b", "l", "e">>))
          @@ ("Good With Kids" :> Str(<<"t", "r", "u", "e">>))

\* the same animal from another form: a numeric id, another name, an image, a gallery
Rex2 == ("id" :> Num(7)) @@ ("name" :> Str(<<"M", "a", "x">>))
          @@ ("status" :> Str(<<"a", "d", "o", "p", "t", "e", "d">>))
          @@ ("Image Url" :> Str(url(1)))
          @@ ("Gallery" :> Arr(<<Str(url(2))>>))

Bo == ("Number" :> Str(<<"8">>)) @@ ("Name" :> Str(<<"R", "e", "x">>))

Nameless == ("Entry ID" :> Str(<<" ">>)) @@ ("Name" :> Str(<<"R", "e", "x">>))
          @@ ("Image Url" :> Str(url(1)))

\* Spec: a few records, ingested by concurrent invocations
Requests == {Post(Rex), Post(Rex2), Post(Bo), Post(Nameless)}

IdValues ==
    {Undefined, Null, Str(<<>>), Str(<<" ", "\t">>), Str(<<" ", "7", " ">>), Str(<<"7">>),
     Num(8)}

IdBodies ==
    {Body(("Entry ID" :> a) @@ ("entryId" :> b) @@ ("Number" :> c) @@ ("id" :> d)
          @@ ("Image Url" :> Str(url(1)))) :
        a \in IdValues, b \in {Undefined, Str(<<>>), Str(<<"9", "\n">>)},
        c \in IdValues, d \in {Undefined, Null, Str(<<"7">>)}}

StatusValues ==
    {Undefined, Null, Str(<<>>), Str(<<" ">>),
     Str(<<"a", "v", "a", "i", "l", "a", "b", "l", "e">>),
     Str(<<"A", "V", "A", "I", "L", "A", "B", "L", "E">>),
     Str(<<"A", "v", "a", "i", "l", "a", "b", "l", "e">>),
     Str(<<" ", "a", "v", "a", "i", "l", "a", "b", "l", "e">>),
     Str(<<"a", "d", "o", "p", "t", "e", "d">>),
     Str(<<"A", "D", "O", "P", "T", "E", "D">>),
     Bool(TRUE)}

StatusBodies ==
    {Body(("id" :> Num(7)) @@ ("Status" :> a) @@ ("status" :> b)) :
        a \in StatusValues, b \in StatusValues}

ImageValues ==
    {Undefined, Str(url(1)), Str(Https \o <<"a">>), Str(Ftp \o <<"a">>),
     Str(<<" ">> \o url(1))}

GalleryEntries == {Str(url(2)), Str(url(3)), Str(Ftp \o <<"b">>)}

RECURSIVE SeqsUpTo(_, _)
SeqsUpTo(S, n) ==
    IF n = 0 THEN {<<>>}
    ELSE LET shorter == SeqsUpTo(S, n - 1)
         IN  shorter \cup {Append(q, x) : q \in shorter, x \in S}

AssetBodies ==
    {Body(("id" :> Num(7)) @@ ("Image Url" :> i) @@ ("Gallery Urls" :> Arr(g))) :
        i \in ImageValues, g \in SeqsUpTo(GalleryEntries, MaxShortGallery)}

\* a gallery given as one string
GalleryStrings ==
    {url(2),
     url(2) \o <<",">> \o url(3),
     url(2) \o <<",", " ">> \o Ftp \o <<"b", " ", ",">> \o Https \o <<"a">>,
     <<",", " ">> \o url(2),
     Ftp \o <<"b">>}

GalleryStringBodies ==
    {("id" :> Num(7)) @@ ("Gallery Urls" :> Str(g)) : g \in GalleryStrings}

\* galleries under more than one alias
GalleryAliasValues == {Undefined, Null, Str(<<>>), Arr(<<>>), Arr(<<Str(url(2))>>)}

GalleryAliasBodies ==
    {Body(("id" :> Num(7)) @@ ("Gallery Urls" :> a) @@ ("Gallery" :> b)
          @@ ("image_urls" :> Arr(<<Str(url(3))>>))) :
        a \in GalleryAliasValues, b \in GalleryAliasValues}

\* text fields under more than one alias
TextAliasValues == {Undefined, Null, Str(<<" ">>), Str(<<" ", "R", "e", "x">>), Num(0)}

TextAliasBodies ==
    {Body(("id" :> Num(7)) @@ ("Name" :> a) @@ ("dog_name" :> b)
          @@ ("Location" :> a) @@ ("location" :> b) @@ ("City" :> Str(<<"S", "F">>))
          @@ ("Species" :> b) @@ ("breed" :> a) @@ ("Age" :> Num(3))
          @@ ("Gender" :> b) @@ ("gender" :> a) @@ ("size" :> b)
          @@ ("AdoptionFee" :> a) @@ ("Description" :> b)
          @@ ("description" :> Str(<<"a", "\n", "\n", "b">>))
          @@ ("PhotoUrl" :> Str(url(1))) @@ ("ImageUrl" :> b)) :
        a \in TextAliasValues, b \in TextAliasValues}

\* the boolean fields
BooleanValues ==
    {Undefined, Null, Str(<<>>), Bool(TRUE), Bool(FALSE), Str(<<"t", "r", "u", "e">>),
     Str(<<"f", "a", "l", "s", "e">>)}

BooleanBodies ==
    {Body(("id" :> Num(7)) @@ ("Good With Kids" :> a) @@ ("good_with_kids" :> b)
          @@ ("Good With Dogs" :> b) @@ ("good_with_cats" :> a)
          @@ ("House Trained" :> a) @@ ("house_trained" :> Bool(TRUE))
          @@ ("spayed_neutered" :> b) @@ ("Vaccinated" :> a)) :
        a \in BooleanValues, b \in BooleanValues}

\* SpecRecord: one invocation, every shape of record
RecordRequests ==
    {[method |-> "GET", sig |-> WEBHOOK_SECRET, body |-> Rex],
     [method |-> "POST", sig |-> "", body |-> Rex],
     [method |-> "POST", sig |-> "guess", body |-> Rex],
     [method |-> "POST", sig |-> WEBHOOK_SECRET, body |-> <<>>]}
    \cup {Post(b) : b \in IdBodies \cup StatusBodies \cup AssetBodies
                         \cup GalleryStringBodies \cup GalleryAliasBodies
                         \cup TextAliasBodies \cup BooleanBodies}

\* SpecCap: one invocation, galleries around the cap
CapRequests ==
    {Post(("id" :> Num(7)) @@ ("Image Url" :> Str(Https \o <<"a">>))
            @@ ("Gallery Urls" :> Arr([i \in 1..n |-> Str(url(i))]))) :
        n \in (MaxGallery - 2)..MaxGallery}
    \cup {Post(("id" :> Num(7))
               @@ ("Gallery Urls" :>
                     Arr([i \in 1..MaxGallery |->
                            IF i = 2 THEN Str(Ftp \o <<"b">>) ELSE Str(url(i))])))}

(***************************************************************************)
(* The specifications of the ingestion.                                    *)
(***************************************************************************)
InitIngest ==
    /\ pc = [p \in IProcs |-> "idle"]
    /\ request = [p \in IProcs |-> NoRequest]
    /\ loc = [p \in IProcs |-> NoLocals]
    /\ fileIds = [p \in IProcs |-> <<>>]
    /\ gi = [p \in IProcs |-> 0]
    /\ lastUpload = [p \in IProcs |-> "none"]
    /\ log = [p \in IProcs |-> <<>>]
    /\ resp = [p \in IProcs |-> NoResponse]
    /\ metaobjects = {}
    /\ files = <<>>

Init == InitIngest /\ InitSetup /\ definition = NoDefinition

Next ==
    \E p \in IProcs :
        \/ \E req \in Requests : Receive(p, req)
        \/ UploadImage(p)
        \/ UploadGallery(p)
        \/ Upsert(p)

Spec == Init /\ [][Next]_vars

NextRecord ==
    \/ \E req \in RecordRequests : Receive(1, req)
    \/ UploadImage(1)
    \/ UploadGallery(1)
    \/ Upsert(1)

SpecRecord == Init /\ [][NextRecord]_vars

NextCap ==
    \/ \E req \in CapRequests : Receive(1, req)
    \/ UploadImage(1)
    \/ UploadGallery(1)
    \/ Upsert(1)

SpecCap == Init /\ [][NextCap]_vars

NextSetup ==
    \E q \in RProcs :
        \/ \E req \in SetupRequests : Lookup(q, req)
        \/ Create(q)
        \/ Update(q)

SetupInit == InitIngest /\ InitSetup /\ definition \in InitialDefinitions

SpecSetup == SetupInit /\ [][NextSetup]_vars

(***************************************************************************)
(* What the properties below speak of.                                     *)
(***************************************************************************)
\* a value that is absent, null, empty or made of white space only
blank(v) == nullish(v) \/ \A i \in 1..Len(String(v)) : String(v)[i] \in WhiteSpace

\* t is s without its leading and trailing white space, and is not empty
isTrimOf(t, s) ==
    \E i, j \in 1..Len(s) :
        /\ i <= j
        /\ t = SubSeq(s, i, j)
        /\ s[i] \notin WhiteSpace /\ s[j] \notin WhiteSpace
        /\ \A k \in 1..Len(s) : (k < i \/ k > j) => s[k] \in WhiteSpace

populatedAliases(body, keys) == {i \in 1..Len(keys) : ~blank(get(body, keys[i]))}

\* the value of the first populated alias
selected(body, keys) ==
    get(body, keys[CHOOSE i \in populatedAliases(body, keys) :
                      \A j \in populatedAliases(body, keys) : i <= j])

\* the request passed the method and the shared-secret checks
admitted(p) ==
    pc[p] # "idle" /\ request[p].method = "POST" /\ request[p].sig = WEBHOOK_SECRET

\* the record of an admitted request has an identity
identified(p) == admitted(p) /\ populatedAliases(request[p].body, MAP.externalId) # {}

MissingIdentity == [status |-> 400, text |-> "Missing external id (e.g., Entry ID)"]

upserts(p) == SelectSeq(log[p], LAMBDA e : e.op = "metaobjectUpsert")
uploads(p) == SelectSeq(log[p], LAMBDA e : e.op = "fileCreate")

\* the call has answered 200 with ok: true
reportsSuccess(p) == pc[p] = "done" /\ resp[p].status = 200

(***************************************************************************)
(* C1: after any interleaving of ingestions the store holds at most one    *)
(* metaobject for each external id: every upsert request carries the       *)
(* trimmed external id of its record as the handle, and two ingestions of  *)
(* records with one identity answer with the same handle and leave at most *)
(* one metaobject of that handle.                                          *)
(***************************************************************************)
C1_OneEntityPerExternalId ==
    /\ \A m1, m2 \in metaobjects :
          (m1.handle = m2.handle \/ m1.fields["external_id"] = m2.fields["external_id"])
             => m1 = m2
    /\ \A p \in IProcs : \A i \in 1..Len(log[p]) :
          log[p][i].op = "metaobjectUpsert" =>
             /\ identified(p)
             /\ isTrimOf(log[p][i].handle,
                         String(selected(request[p].body, MAP.externalId)))
    /\ \A p, q \in IProcs :
          (/\ reportsSuccess(p) /\ reportsSuccess(q)
           /\ \E t \in {resp[p].handle} :
                 /\ isTrimOf(t, String(selected(request[p].body, MAP.externalId)))
                 /\ isTrimOf(t, String(selected(request[q].body, MAP.externalId))))
             => /\ resp[p].handle = resp[q].handle
                /\ Cardinality({m \in metaobjects : m.handle = resp[p].handle}) <= 1

\* two forms of one animal, their ids differing by white space and type, both ingested
C1_Witness ==
    /\ reportsSuccess(1) /\ reportsSuccess(2)
    /\ request[1].body = Rex /\ request[2].body = Rex2
    /\ upserts(1)[1].out = "ok" /\ upserts(2)[1].out = "ok"
    /\ Cardinality(metaobjects) = 1

(***************************************************************************)
(* C2: a record whose identity aliases are all absent, null, empty or      *)
(* white space is answered with the missing-identity error, and the call   *)
(* issues no store request: no upload, no upsert.                          *)
(***************************************************************************)
C2_MissingIdentityStopsEarly ==
    \A p \in IProcs :
        (admitted(p) /\ ~identified(p)) =>
            /\ pc[p] = "done"
            /\ resp[p] = MissingIdentity
            /\ log[p] = <<>>
            /\ (\A q \in IProcs : q # p => pc[q] = "idle") =>
                  (metaobjects = {} /\ files = <<>>)

\* a record with an image whose only identity alias is white space
C2_Witness ==
    /\ admitted(1)
    /\ resp[1] = MissingIdentity
    /\ get(request[1].body, "Entry ID") = Str(<<" ", "\t">>)
    /\ get(request[1].body, "Number") = Null
    /\ isHttpUrl(String(get(request[1].body, "Image Url")))

(***************************************************************************)
(* C3: an ingestion call reports success only if the upsert was answered   *)
(* 2xx with no top-level errors and no user errors; in every other case it *)
(* reports a failure, a user error with its field and message.             *)
(***************************************************************************)
C3_SuccessOnlyIfUpsertAccepted ==
    \A p \in IProcs :
        (pc[p] = "done" /\ upserts(p) # <<>>) =>
            /\ reportsSuccess(p) <=> upserts(p)[1].out = "ok"
            /\ upserts(p)[1].out = "userError" =>
                  (resp[p].status = 400 /\ resp[p].err = UserError)

(***************************************************************************)
(* C4: the reconciler issues a create-definition request only when its     *)
(* lookup succeeded and reported no definition of type "animal"; when the  *)
(* lookup is answered non-2xx or with a non-empty errors array, the call   *)
(* fails and issues no create and no update request.                       *)
(***************************************************************************)
C4_CreateOnlyAfterSuccessfulLookup ==
    \A q \in RProcs :
        rlog[q] # <<>> =>
            /\ rlog[q][1].op = "lookup"
            /\ (rpc[q] = "create" \/ \E i \in 1..Len(rlog[q]) : rlog[q][i].op = "create")
                  => (rlog[q][1].out = "ok" /\ ~existing[q].found)
            /\ rlog[q][1].out # "ok" =>
                  /\ Len(rlog[q]) = 1
                  /\ rpc[q] = "done"
                  /\ rresp[q].status # 200

(***************************************************************************)
(* C5: a reconciler call whose lookup comes after a call that has ended    *)
(* with its create or update request accepted by the store, and whose      *)
(* lookup is answered, ends with the up-to-date answer having issued the   *)
(* lookup alone: no create and no update request.                          *)
(***************************************************************************)
C5_SecondCallIsNoop ==
    \A q \in RProcs :
        (rafter[q] /\ rlog[q][1].out = "ok") =>
            /\ rpc[q] = "done"
            /\ rresp[q] = UpToDate
            /\ Len(rlog[q]) = 1

\* a call that extended an older definition has ended, and the next call was a no-op
C5_Witness ==
    \E q, r \in RProcs :
        /\ rafter[q] /\ rresp[q] = UpToDate
        /\ accepted(r)
        /\ rlog[r][2].op = "update"
        /\ Len(rlog[r][2].fieldDefinitionsToCreate) = MaxMissing

(***************************************************************************)
(* C6: when the definition exists, the keys submitted for creation are the *)
(* catalog keys less the keys the lookup returned, each once: no key that  *)
(* exists, every key that is missing, and an empty list of fields to       *)
(* update; so a field of the store's definition is never removed and never *)
(* changes type.                                                           *)
(***************************************************************************)
C6_SubmitsExactlyTheMissingKeys ==
    /\ [](\A q \in RProcs :
            /\ \A i \in 1..Len(rlog[q]) :
                  rlog[q][i].op = "update" =>
                     LET e == rlog[q][i]
                     IN  /\ existing[q].found
                         /\ keysOf(e.fieldDefinitionsToCreate) = CatalogKeys \ existing[q].keys
                         /\ Len(e.fieldDefinitionsToCreate)
                               = Cardinality(CatalogKeys \ existing[q].keys)
                         /\ e.fieldDefinitionsToUpdate = <<>>
            /\ (existing[q].found /\ CatalogKeys \ existing[q].keys # {}) =>
                  \/ rpc[q] = "update"
                  \/ rpc[q] = "done" /\ Len(rlog[q]) = 2 /\ rlog[q][2].op = "update")
    /\ [][definition.exists =>
            \A k \in DOMAIN definition.fields :
                k \in DOMAIN definition'.fields /\ definition'.fields[k] = definition.fields[k]]_vars

\* fields were added to a definition that held a field of its own and a key of another type
C6_Witness ==
    \E q \in RProcs :
        /\ accepted(q)
        /\ rlog[q][2].op = "update"
        /\ "legacy_note" \in existing[q].keys
        /\ definition.fields["age"] = "number_integer"
        /\ CatalogKeys \subseteq DOMAIN definition.fields

(***************************************************************************)
(* C7 as stated: the publication state sent with the upsert is ACTIVE      *)
(* exactly when the record's status is "available" in any letter case, and *)
(* DRAFT otherwise, a record with no populated status alias included.      *)
(***************************************************************************)
sameIgnoringCase(s, t) ==
    /\ Len(s) = Len(t)
    /\ \A i \in 1..Len(s) :
          \/ s[i] = t[i]
          \/ \E k \in 1..Len(UpperCase) : {s[i], t[i]} = {UpperCase[k], LowerCase[k]}

statusGiven(body) == populatedAliases(body, MAP.status) # {}

statusIsAvailable(body) ==
    statusGiven(body) /\ sameIgnoringCase(String(selected(body, MAP.status)), Available)

C7_ActiveIffAvailable ==
    \A p \in IProcs : \A i \in 1..Len(log[p]) :
        log[p][i].op = "metaobjectUpsert" =>
            /\ log[p][i].status \in {"ACTIVE", "DRAFT"}
            /\ log[p][i].status = "ACTIVE" <=> statusIsAvailable(request[p].body)

(***************************************************************************)
(* C7 as amended: the publication state sent with the upsert is ACTIVE     *)
(* exactly when the record's status is "available" in any letter case or   *)
(* no status alias is populated (the status then defaults to "available"), *)
(* and DRAFT for every other status value.                                 *)
(***************************************************************************)
C7_ActiveIffAvailableOrAbsent ==
    \A p \in IProcs : \A i \in 1..Len(log[p]) :
        log[p][i].op = "metaobjectUpsert" =>
            /\ log[p][i].status \in {"ACTIVE", "DRAFT"}
            /\ log[p][i].status = "ACTIVE" <=>
                  (statusIsAvailable(request[p].body) \/ ~statusGiven(request[p].body))

\* a blank first alias, "AVAILABLE" in the second: sent ACTIVE
C7_Witness ==
    /\ upserts(1) # <<>>
    /\ get(request[1].body, "Status") = Str(<<" ">>)
    /\ get(request[1].body, "status") = Str(<<"A", "V", "A", "I", "L", "A", "B", "L", "E">>)
    /\ upserts(1)[1].status = "ACTIVE"

(***************************************************************************)
(* C8: for a record with an identity, however each upload ends (a file id, *)
(* an answer without a file id, a non-2xx answer, a rejected fetch), the   *)
(* call goes on and issues the upsert; a failed primary upload only leaves *)
(* the image field out, failed gallery uploads only leave their entries    *)
(* out.                                                                    *)
(***************************************************************************)
primaryUrl(body) ==
    IF populatedAliases(body, MAP.imageUrl) = {} THEN <<>>
    ELSE String(selected(body, MAP.imageUrl))

hasPrimary(body) == isHttpUrl(primaryUrl(body))

primaryUploads(p) ==
    IF hasPrimary(request[p].body) THEN SubSeq(uploads(p), 1, 1) ELSE <<>>

galleryUploads(p) ==
    IF hasPrimary(request[p].body) THEN SubSeq(uploads(p), 2, Len(uploads(p)))
    ELSE uploads(p)

idsOf(entries) ==
    LET got == SelectSeq(entries, LAMBDA e : e.id # 0)
    IN  [i \in 1..Len(got) |-> got[i].id]

valuesOf(fields, key) ==
    LET hit == SelectSeq(fields, LAMBDA f : f.key = key)
    IN  [i \in 1..Len(hit) |-> hit[i].value]

C8_UploadFailuresNeverBlock ==
    \A p \in IProcs :
        identified(p) =>
            /\ pc[p] = "done" => Len(upserts(p)) = 1
            /\ \A i \in 1..Len(upserts(p)) :
                  LET fields == upserts(p)[i].fields
                      base == normalize(request[p].body).fields
                  IN  /\ SubSeq(fields, 1, Len(base)) = base
                      /\ valuesOf(fields, "image")
                            = [k \in 1..Len(idsOf(primaryUploads(p))) |->
                                  fileGid(idsOf(primaryUploads(p))[k])]
                      /\ valuesOf(fields, "gallery")
                            = IF idsOf(galleryUploads(p)) = <<>> THEN <<>>
                              ELSE <<stringifyIds(idsOf(galleryUploads(p)))>>

\* the primary upload was rejected, one gallery upload came back without an id, the
\* other with one: the upsert was issued and accepted
C8_Witness ==
    /\ identified(1) /\ reportsSuccess(1)
    /\ Len(uploads(1)) = 3
    /\ uploads(1)[1].id = 0 /\ uploads(1)[2].id # 0 /\ uploads(1)[3].id = 0
    /\ lastUpload[1] = "throw"
    /\ upserts(1)[1].out = "ok"
    /\ valuesOf(upserts(1)[1].fields, "image") = <<>>
    /\ Len(valuesOf(upserts(1)[1].fields, "gallery")) = 1

(***************************************************************************)
(* C9: of a record's N valid gallery URLs the first min(N, 12), in source  *)
(* order, are submitted for upload, each once, and none after the twelfth; *)
(* the gallery field of the upsert holds at most 12 ids, in the order of   *)
(* their URLs.                                                             *)
(***************************************************************************)
galleryGiven(body) == get(body, "Gallery Urls").t = "array"

validGalleryUrls(body) ==
    LET a == get(body, "Gallery Urls").a
        kept == SelectSeq(a, LAMBDA u : u.t = "string" /\ isHttpUrl(u.s))
    IN  [i \in 1..Len(kept) |-> kept[i].s]

C9_GalleryCap ==
    \A p \in IProcs :
        (identified(p) /\ galleryGiven(request[p].body)) =>
            LET valid == validGalleryUrls(request[p].body)
                n == IF Len(valid) < 12 THEN Len(valid) ELSE 12
                sent == galleryUploads(p)
            IN  /\ Len(sent) <= n
                /\ \A i \in 1..Len(sent) : sent[i].url = valid[i]
                /\ pc[p] \in {"upsert", "done"} => Len(sent) = n
                /\ \A i \in 1..Len(upserts(p)) :
                      /\ Len(idsOf(sent)) <= 12
                      /\ valuesOf(upserts(p)[i].fields, "gallery")
                            = IF idsOf(sent) = <<>> THEN <<>>
                              ELSE <<stringifyIds(idsOf(sent))>>

\* thirteen valid URLs: twelve uploads, all with a file id, twelve ids in the upsert
C9_Witness ==
    /\ pc[1] = "done"
    /\ Len(validGalleryUrls(request[1].body)) = 13
    /\ Len(galleryUploads(1)) = 12
    /\ Len(idsOf(galleryUploads(1))) = 12
    /\ upserts(1) # <<>>

(***************************************************************************)
(* C10: a record with a populated identity alias is normalized, and its    *)
(* externalId is the text of the first populated alias in the order        *)
(* "Entry ID", "entryId", "Number", "id" without its leading and trailing  *)
(* white space, and not empty; records whose selected values differ only   *)
(* by surrounding white space have the same externalId.                    *)
(***************************************************************************)
C10_ExternalIdIsTrimmedFirstAlias ==
    \A p \in IProcs :
        identified(p) =>
            /\ resp[p] # MissingIdentity
            /\ loc[p] # NoLocals
            /\ isTrimOf(loc[p].externalId,
                        String(selected(request[p].body, MAP.externalId)))
            /\ \A b \in IdBodies :
                  (/\ populatedAliases(b, MAP.externalId) # {}
                   /\ isTrimOf(loc[p].externalId, String(selected(b, MAP.externalId))))
                     => externalIdOf(b) = loc[p].externalId

\* two blank aliases before " 7 ", and "7" after it: the externalId is "7"
C10_Witness ==
    /\ identified(1)
    /\ get(request[1].body, "Entry ID") = Str(<<" ", "\t">>)
    /\ get(request[1].body, "entryId") = Str(<<>>)
    /\ get(request[1].body, "Number") = Str(<<" ", "7", " ">>)
    /\ get(request[1].body, "id") = Str(<<"7">>)
    /\ loc[1].externalId = <<"7">>

(***************************************************************************)
(* C11: when an upsert is accepted, the metaobject of its handle holds     *)
(* afterwards the field values of this ingestion and no other: no value    *)
(* written by an earlier ingestion of the same external id survives, the   *)
(* image and the gallery included when this ingestion has none.            *)
(***************************************************************************)
C11_LastWriteWins ==
    [][\A p \in IProcs :
          (/\ pc[p] = "upsert" /\ pc'[p] = "done"
           /\ log'[p][Len(log'[p])].out = "ok")
             => \E m \in metaobjects' :
                   /\ m.handle = loc[p].externalId
                   /\ m.fields = fieldValues(loc[p].fields)]_vars

(***************************************************************************)
(* C12 as stated: across any interleaving of reconciler calls at most one  *)
(* create-definition request is ever issued.                               *)
(***************************************************************************)
createRequests == {e \in RProcs \X (1..3) : e[2] <= Len(rlog[e[1]]) /\ rlog[e[1]][e[2]].op = "create"}

C12_AtMostOneCreateRequest == Cardinality(createRequests) <= 1

(***************************************************************************)
(* C12, amended: the definition is created at most once: of the create     *)
(* requests issued at most one is accepted by the store, and a call whose  *)
(* lookup returned the definition issues no create request: it extends the *)
(* definition or issues nothing more.  Several create requests can be      *)
(* issued, by calls whose lookups came before the accepted create or after *)
(* a create that failed.                                                   *)
(***************************************************************************)
C12_CreatedAtMostOnce ==
    /\ Cardinality({e \in createRequests : rlog[e[1]][e[2]].out = "ok"}) <= 1
    /\ \A q \in RProcs :
          (rlog[q] # <<>> /\ rlog[q][1].found) =>
              /\ rpc[q] \in {"update", "done"}
              /\ \A i \in 1..Len(rlog[q]) : rlog[q][i].op # "create"
              /\ rpc[q] = "done" =>
                    \/ Len(rlog[q]) = 1 /\ rresp[q] = UpToDate
                    \/ Len(rlog[q]) = 2 /\ rlog[q][2].op = "update"

\* two calls looked up before either created: both sent a create request, the store
\* accepted one and refused the other
C12_Witness ==
    \E q, r \in RProcs :
        /\ q # r
        /\ rpc[q] = "done" /\ rpc[r] = "done"
        /\ Len(rlog[q]) = 2 /\ Len(rlog[r]) = 2
        /\ rlog[q][1].out = "ok" /\ rlog[r][1].out = "ok"
        /\ rlog[q][2].op = "create" /\ rlog[q][2].out = "ok"
        /\ rlog[r][2].op = "create" /\ rlog[r][2].out = "userError"

(***************************************************************************)
(* C13: a reconciler call reports success only if the store accepted its   *)
(* create or update request; when that request is answered with a user     *)
(* error, a top-level errors array or a non-2xx status the call reports a  *)
(* failure, a user error as status 400 with the step and the store's       *)
(* errors, and issues no request after it.                                 *)
(***************************************************************************)
C13_SuccessOnlyIfMutationAccepted ==
    \A q \in RProcs : \A i \in 1..Len(rlog[q]) :
        rlog[q][i].op \in {"create", "update"} =>
            /\ i = Len(rlog[q])
            /\ rpc[q] = "done"
            /\ rresp[q].status = 200 <=> rlog[q][i].out = "ok"
            /\ rlog[q][i].out = "userError" =>
                  rresp[q] = [status |-> 400, step |-> rlog[q][i].op,
                              errors |-> <<UserError>>]

(***************************************************************************)
(* C14: the store requests of one record come in a fixed order and none is *)
(* repeated: at most one upload, of the primary image, then the uploads of *)
(* the first 12 valid gallery URLs one after the other in source order,    *)
(* then one upsert; nothing follows the upsert, whatever its outcome.      *)
(***************************************************************************)
C14_FixedOrderNoRetry ==
    \A p \in IProcs :
        identified(p) =>
            LET body == request[p].body
                valid == validGalleryUrls(body)
                n == IF Len(valid) < 12 THEN Len(valid) ELSE 12
                first == IF hasPrimary(body) THEN 1 ELSE 0
                k == Len(uploads(p))
            IN  /\ Len(upserts(p)) <= 1
                /\ k <= first + n
                /\ \A i \in 1..Len(log[p]) :
                      /\ i <= k <=> log[p][i].op = "fileCreate"
                      /\ (i = 1 /\ first = 1 /\ k >= 1) => log[p][i].url = primaryUrl(body)
                      /\ (first < i /\ i <= k) => log[p][i].url = valid[i - first]
                /\ upserts(p) # <<>> => (pc[p] = "done" /\ k = first + n)
                /\ pc[p] = "done" => Len(log[p]) = first + n + 1
                /\ pc[p] = "image" => k = 0
                /\ pc[p] = "gallery" => (k = first + gi[p] /\ k < first + n)
                /\ pc[p] = "upsert" => Len(log[p]) = first + n

\* a primary upload, twelve gallery uploads out of thirteen URLs, then an upsert that
\* the store answered non-2xx: fourteen requests, and the call has ended
C14_Witness ==
    /\ pc[1] = "done"
    /\ hasPrimary(request[1].body)
    /\ Len(validGalleryUrls(request[1].body)) = 13
    /\ Len(log[1]) = 14
    /\ log[1][14].op = "metaobjectUpsert" /\ log[1][14].out = "http"
    /\ resp[1].status = 500

(***************************************************************************)
(* C15: the field list of every upsert request holds each of the 17 keys   *)
(* that are not assets once, the image key exactly when the primary upload *)
(* returned a file id, the gallery key exactly when some gallery upload    *)
(* returned a file id, no key twice and no key outside the catalog.        *)
(***************************************************************************)
NonAssetKeys ==
    {"external_id", "name", "status", "species", "breed", "age", "gender", "size",
     "location", "adoption_fee", "good_with_kids", "good_with_dogs", "good_with_cats",
     "house_trained", "spayed_neutered", "vaccinated", "description"}

C15_UpsertFieldKeys ==
    \A p \in IProcs : \A i \in 1..Len(upserts(p)) :
        LET fields == upserts(p)[i].fields
            count(k) == Cardinality({j \in 1..Len(fields) : fields[j].key = k})
        IN  /\ Cardinality(NonAssetKeys) = 17
            /\ \A k \in NonAssetKeys : count(k) = 1
            /\ count("image") = IF idsOf(primaryUploads(p)) # <<>> THEN 1 ELSE 0
            /\ count("gallery") = IF idsOf(galleryUploads(p)) # <<>> THEN 1 ELSE 0
            /\ \A j \in 1..Len(fields) : fields[j].key \in CatalogKeys
            /\ Len(fields) = Cardinality({fields[j].key : j \in 1..Len(fields)})

\* the primary upload and one of two gallery uploads returned an id: 19 keys
C15_Witness ==
    /\ pc[1] = "done"
    /\ upserts(1) # <<>>
    /\ Len(uploads(1)) = 3
    /\ uploads(1)[1].id # 0 /\ uploads(1)[2].id = 0 /\ uploads(1)[3].id # 0
    /\ Len(upserts(1)[1].fields) = 19

(***************************************************************************)
(* C16: a gallery given as an array of strings, or as one string of one or *)
(* more URLs separated by commas, is normalized to its entries that start  *)
(* with http:// or https://, in source order; the other entries are        *)
(* dropped and the call goes on.                                           *)
(***************************************************************************)
\* the entries of a gallery value: the strings of an array, the parts of a string
entriesOf(g) ==
    IF g.t = "array"
    THEN LET strs == SelectSeq(g.a, LAMBDA u : u.t = "string")
         IN  [i \in 1..Len(strs) |-> strs[i].s]
    ELSE LET parts == split(g.s, ",")
         IN  [i \in 1..Len(parts) |-> trim(parts[i])]

C16_GalleryArrayOrString ==
    \A p \in IProcs :
        (identified(p) /\ get(request[p].body, "Gallery Urls").t \in {"array", "string"}) =>
            /\ loc[p].galleryUrls
                  = SelectSeq(entriesOf(get(request[p].body, "Gallery Urls")), isHttpUrl)
            /\ resp[p].status # 400

(***************************************************************************)
(* C17: every normalized value comes from the first alias, in declared     *)
(* order, whose value is present and not null, empty or white space, and   *)
(* the fallback is used only when no alias is populated; this holds for    *)
(* the text fields, the flags, the image and the gallery.                  *)
(***************************************************************************)
\* the first populated alias, or the fallback
chosen(body, keys, fallback) ==
    IF populatedAliases(body, keys) = {} THEN fallback ELSE selected(body, keys)

TextFields ==
    {<<"species", MAP.species, <<"D", "o", "g">>>>, <<"breed", MAP.breed, <<>>>>,
     <<"age", MAP.age, <<>>>>, <<"gender", MAP.gender, <<>>>>, <<"size", MAP.size, <<>>>>,
     <<"location", MAP.location, <<>>>>, <<"adoption_fee", MAP.adoptionFee, <<>>>>}

FlagFields ==
    {<<"good_with_kids", MAP.goodWithKids>>, <<"good_with_dogs", MAP.goodWithDogs>>,
     <<"good_with_cats", MAP.goodWithCats>>, <<"house_trained", MAP.houseTrained>>,
     <<"spayed_neutered", MAP.spayedNeutered>>, <<"vaccinated", MAP.vaccinated>>}

\* the fields that pick selects
C17_PickedFields ==
    \A p \in IProcs :
        identified(p) =>
            LET body == request[p].body
                value == fieldValues(normalize(body).fields)
                sent == fieldValues(SubSeq(loc[p].fields, 1, 17))
            IN  /\ sent = value
                /\ \A f \in TextFields :
                      value[f[1]] = String(chosen(body, f[2], Str(f[3])))
                /\ \A f \in FlagFields :
                      value[f[1]] = booleanText(truthy(chosen(body, f[2], Bool(FALSE))))
                /\ isTrimOf(value["name"],
                            String(chosen(body, MAP.name, Str(<<"U", "n", "n", "a", "m", "e", "d">>))))
                /\ value["status"] = toLowerCase(String(chosen(body, MAP.status, Str(Available))))
                /\ value["description"]
                      = richText(String(chosen(body, MAP.description, Str(<<>>))))
                /\ loc[p].imageUrl = String(chosen(body, MAP.imageUrl, Str(<<>>)))

C17_FirstPopulatedAlias ==
    /\ C17_PickedFields
    /\ \A p \in IProcs :
          identified(p) =>
              LET g == chosen(request[p].body, MAP.gallery, Undefined)
              IN  loc[p].galleryUrls
                     = IF g.t \in {"array", "string"} /\ ~(g.t = "string" /\ ~includes(g.s, ","))
                       THEN SelectSeq(entriesOf(g), isHttpUrl)
                       ELSE <<>>

(***************************************************************************)
(* C18: each of the six flags is written "true" only when the selected     *)
(* alias value is the boolean true or the text "true"; when it is the      *)
(* boolean false or the text "false", and when no alias is populated, the  *)
(* flag is written "false".                                                *)
(***************************************************************************)
denotesTrue(v) == v = Bool(TRUE) \/ v = Str(<<"t", "r", "u", "e">>)

C18_FlagsDenoteTheirValue ==
    \A p \in IProcs :
        identified(p) =>
            \A f \in FlagFields :
                fieldValues(loc[p].fields)[f[1]]
                   = booleanText(denotesTrue(chosen(request[p].body, f[2], Bool(FALSE))))

(***************************************************************************)
(* C19: every ingestion of a record issues an upload request for its valid *)
(* primary image URL and for each of its first 12 valid gallery URLs,      *)
(* whatever earlier ingestions of the same external id have uploaded, and  *)
(* every accepted upload creates a new file: k ingestions of one record    *)
(* leave one metaobject and issue k times the upload requests of one.      *)
(***************************************************************************)
\* the upload requests one ingestion of the record issues
assetUrls(body) ==
    LET g == chosen(body, MAP.gallery, Undefined)
        valid == IF g.t \in {"array", "string"} THEN SelectSeq(entriesOf(g), isHttpUrl)
                 ELSE <<>>
        n == IF Len(valid) < 12 THEN Len(valid) ELSE 12
    IN  (IF hasPrimary(body) THEN <<primaryUrl(body)>> ELSE <<>>) \o SubSeq(valid, 1, n)

accepts == {e \in IProcs \X (1..(1 + GalleryCap)) :
               e[2] <= Len(uploads(e[1])) /\ uploads(e[1])[e[2]].id # 0}

C19_UploadsOnEveryIngestion ==
    /\ \A p \in IProcs :
          identified(p) =>
              LET sent == [i \in 1..Len(uploads(p)) |-> uploads(p)[i].url]
                  due == assetUrls(request[p].body)
              IN  /\ Len(sent) <= Len(due)
                  /\ sent = SubSeq(due, 1, Len(sent))
                  /\ (pc[p] \in {"upsert", "done"}) => sent = due
    /\ Len(files) = Cardinality(accepts)
    /\ \A e \in accepts :
          LET u == uploads(e[1])[e[2]]
          IN  u.id \in 1..Len(files) /\ files[u.id].originalSource = u.url
    /\ \A e1, e2 \in accepts :
          uploads(e1[1])[e1[2]].id = uploads(e2[1])[e2[2]].id => e1 = e2
    /\ \A p, q \in IProcs :
          (reportsSuccess(p) /\ reportsSuccess(q) /\ loc[p].externalId = loc[q].externalId)
             => Cardinality({m \in metaobjects : m.handle = loc[p].externalId}) <= 1

\* one record ingested twice: each ingestion uploaded its image and its gallery URL,
\* the store holds four files and one metaobject
C19_Witness ==
    /\ reportsSuccess(1) /\ reportsSuccess(2)
    /\ request[1].body = Rex2 /\ request[2].body = Rex2
    /\ upserts(1)[1].out = "ok" /\ upserts(2)[1].out = "ok"
    /\ Len(uploads(1)) = 2 /\ Len(uploads(2)) = 2
    /\ Len(files) = 4
    /\ files[1].originalSource = files[3].originalSource
    /\ Cardinality(metaobjects) = 1

====
